---------------------------- MODULE Spec2Model ----------------------------
(***************************************************************************)
(* Model of src/project/app.py: the in-memory layer store (LAYERS), the    *)
(* CSV normaliser (normalize_columns), the spatial filters (bbox_filter,   *)
(* within_radius, haversine_m) and the request handlers that read and      *)
(* write the store.                                                        *)
(*                                                                         *)
(* Representation.                                                         *)
(*   - A Python str is a sequence of one-character strings, so that        *)
(*     strip() and lower() are computed character by character.            *)
(*   - A DataFrame is a record [cols, index, rows]: the column labels in   *)
(*     order (labels may repeat), the index labels of the rows, and the    *)
(*     rows as sequences of cells aligned with cols.                       *)
(*   - A cell is a record [t, n, s]: a number (t = "num", value n), a text *)
(*     (t = "str", characters s) or a missing value NaN (t = "nan").       *)
(*   - Coordinates are whole degrees and distances whole metres; the       *)
(*     trigonometry of haversine_m is done in fixed point (scale TrigOne). *)
(*   - A coordinate of circle_polygon is a record [v, r]: its fixed-point  *)
(*     value and the sign of what the double holds below that resolution.  *)
(*                                                                         *)
(* Specifications: FnSpec applies the pure functions to drawn inputs, Spec *)
(* handles requests one at a time, RaceSpec runs a query step by step      *)
(* against writers of the same layer name.                                 *)
(***************************************************************************)
EXTENDS Integers, Sequences, FiniteSets, TLC

VARIABLES LAYERS, req, resp

vars == <<LAYERS, req, resp>>

(***************************************************************************)
(* Generic sequence helpers                                                *)
(***************************************************************************)
Range(s) == {s[i] : i \in 1..Len(s)}

RECURSIVE Flatten(_)
Flatten(ss) == IF ss = <<>> THEN <<>> ELSE Head(ss) \o Flatten(Tail(ss))

\* Python "x in seq"
In(x, s) == \E i \in 1..Len(s) : s[i] = x

\* The positions of a sequence of booleans, ascending, that hold TRUE.
RECURSIVE TruePositions(_, _)
TruePositions(mask, i) ==
    IF i > Len(mask) THEN <<>>
    ELSE (IF mask[i] THEN <<i>> ELSE <<>>) \o TruePositions(mask, i + 1)

\* The positions of a boolean mask that hold TRUE.
Positions(mask) == TruePositions(mask, 1)

\* All sequences over S of length 0..n.
SeqsUpTo(S, n) == UNION {[1..k -> S] : k \in 0..n}

(***************************************************************************)
(* Python str: strip() and lower()                                         *)
(***************************************************************************)
Whitespace == {" "}

LowerChar(c) ==
    CASE c = "A" -> "a" [] c = "B" -> "b" [] c = "C" -> "c" [] c = "D" -> "d"
      [] c = "E" -> "e" [] c = "F" -> "f" [] c = "G" -> "g" [] c = "H" -> "h"
      [] c = "I" -> "i" [] c = "J" -> "j" [] c = "K" -> "k" [] c = "L" -> "l"
      [] c = "M" -> "m" [] c = "N" -> "n" [] c = "O" -> "o" [] c = "P" -> "p"
      [] c = "Q" -> "q" [] c = "R" -> "r" [] c = "S" -> "s" [] c = "T" -> "t"
      [] c = "U" -> "u" [] c = "V" -> "v" [] c = "W" -> "w" [] c = "X" -> "x"
      [] c = "Y" -> "y" [] c = "Z" -> "z" [] OTHER -> c

lower(s) == [i \in 1..Len(s) |-> LowerChar(s[i])]

RECURSIVE lstrip(_)
lstrip(s) == IF s # <<>> /\ Head(s) \in Whitespace THEN lstrip(Tail(s)) ELSE s

RECURSIVE rstrip(_)
rstrip(s) ==
    IF s # <<>> /\ s[Len(s)] \in Whitespace
    THEN rstrip(SubSeq(s, 1, Len(s) - 1)) ELSE s

strip(s) == rstrip(lstrip(s))

(***************************************************************************)
(* Cells, and pd.to_numeric(..., errors="coerce")                          *)
(***************************************************************************)
NaN == [t |-> "nan", n |-> 0, s |-> <<>>]
Num(n) == [t |-> "num", n |-> n, s |-> <<>>]
Str(s) == [t |-> "str", n |-> 0, s |-> s]


\* Python None where a number or a text is expected
NoneVal == [t |-> "none", n |-> 0, s |-> <<>>]

isna(c) == c.t = "nan"

Digits == {"0", "1", "2", "3", "4", "5", "6", "7", "8", "9"}

DigitVal(c) ==
    CASE c = "0" -> 0 [] c = "1" -> 1 [] c = "2" -> 2 [] c = "3" -> 3
      [] c = "4" -> 4 [] c = "5" -> 5 [] c = "6" -> 6 [] c = "7" -> 7
      [] c = "8" -> 8 [] c = "9" -> 9

RECURSIVE ParseDigits(_, _)
ParseDigits(s, acc) ==
    IF s = <<>> THEN acc ELSE ParseDigits(Tail(s), 10 * acc + DigitVal(Head(s)))

\* A text is a number when it is an optional sign followed by one or more
\* decimal digits (surrounding blanks are ignored); any other text is
\* coerced to NaN.
ParseNumber(txt) ==
    LET s == strip(txt)
        signed == s # <<>> /\ Head(s) \in {"-", "+"}
        body == IF signed THEN Tail(s) ELSE s
    IN  IF body = <<>> \/ \E i \in 1..Len(body) : body[i] \notin Digits
        THEN NaN
        ELSE IF signed /\ Head(s) = "-"
             THEN Num(0 - ParseDigits(body, 0))
             ELSE Num(ParseDigits(body, 0))

to_numeric(c) == IF c.t = "str" THEN ParseNumber(c.s) ELSE c

\* Series.between(lo, hi): inclusive on both ends, False for a missing value.
between(c, lo, hi) == c.t = "num" /\ lo <= c.n /\ c.n <= hi

(***************************************************************************)
(* DataFrame helpers                                                       *)
(***************************************************************************)
DataFrame(cols, index, rows) == [cols |-> cols, index |-> index, rows |-> rows]

nrows(df) == Len(df.rows)

\* Positions of the columns labelled c (more than one when labels repeat).
ColPositions(df, c) == Positions([j \in 1..Len(df.cols) |-> df.cols[j] = c])

CountCol(df, c) == Len(ColPositions(df, c))

\* df[c] when the label c is unique: the column's cells in row order.
Column(df, c) ==
    LET p == ColPositions(df, c)[1]
    IN  [i \in 1..nrows(df) |-> df.rows[i][p]]

\* df[c] = values: every column labelled c is overwritten, or a new column c
\* is appended on the right when there is none.
SetColumn(df, c, values) ==
    IF In(c, df.cols)
    THEN [df EXCEPT !.rows = [i \in 1..nrows(df) |->
              [j \in 1..Len(df.cols) |->
                  IF df.cols[j] = c THEN values[i] ELSE df.rows[i][j]]]]
    ELSE [df EXCEPT !.cols = Append(df.cols, c),
                    !.rows = [i \in 1..nrows(df) |-> Append(df.rows[i], values[i])]]

\* df[mask]: the rows (with their index labels) where the mask holds.
FilterRows(df, mask) ==
    LET p == Positions(mask)
    IN  [df EXCEPT !.index = [k \in 1..Len(p) |-> df.index[p[k]]],
                   !.rows = [k \in 1..Len(p) |-> df.rows[p[k]]]]

\* df[[k1, k2, ...]]: for each key in turn, every column carrying that label.
SelectColumns(df, keys) ==
    LET p == Flatten([k \in 1..Len(keys) |-> ColPositions(df, keys[k])])
    IN  [df EXCEPT !.cols = [k \in 1..Len(p) |-> df.cols[p[k]]],
                   !.rows = [i \in 1..nrows(df) |->
                                [k \in 1..Len(p) |-> df.rows[i][p[k]]]]]

\* df.reset_index(drop=True)
reset_index(df) == [df EXCEPT !.index = [i \in 1..nrows(df) |-> i - 1]]

\* df.head(n): the first n rows, or all but the last -n rows when n < 0
head(df, n) ==
    LET k == IF n < 0 THEN nrows(df) + n ELSE n
        m == IF k < 0 THEN 0 ELSE IF k < nrows(df) THEN k ELSE nrows(df)
    IN  [df EXCEPT !.index = SubSeq(df.index, 1, m), !.rows = SubSeq(df.rows, 1, m)]

\* The cell of a row under a label that is unique in df.
Cell(df, row, c) == row[ColPositions(df, c)[1]]

(***************************************************************************)
(* Column labels and layer names used by the code                          *)
(***************************************************************************)
s_lat == <<"l", "a", "t">>
s_latitude == <<"l", "a", "t", "i", "t", "u", "d", "e">>
s_y == <<"y">>
s_lon == <<"l", "o", "n">>
s_lng == <<"l", "n", "g">>
s_longitude == <<"l", "o", "n", "g", "i", "t", "u", "d", "e">>
s_x == <<"x">>
s_name == <<"n", "a", "m", "e">>
s_id == <<"i", "d">>
s_distance_m == <<"d", "i", "s", "t", "a", "n", "c", "e", "_", "m">>

\* Python None and the empty str are both falsy; every place that reads a
\* possibly absent str tests it with "not", so one value stands for both.
None == <<>>

LatAliases == <<s_lat, s_latitude, s_y>>
LonAliases == <<s_lon, s_lng, s_longitude, s_x>>

\* next((c for c in cols if c in aliases), None)
FirstAlias(cols, aliases) ==
    LET p == Positions([j \in 1..Len(cols) |-> In(cols[j], aliases)])
    IN  IF p = <<>> THEN None ELSE cols[p[1]]

EmptyDF == DataFrame(<<>>, <<>>, <<>>)

Raised(e) == [exc |-> e, df |-> EmptyDF]
Returned(df) == [exc |-> "none", df |-> df]

(***************************************************************************)
(* normalize_columns                                                       *)
(***************************************************************************)
\* Lines 80-82: id, name, lat, lon first, then the other labels in order.
OrderColumns(df) ==
    LET front == SelectSeq(<<s_id, s_name, s_lat, s_lon>>, LAMBDA c : In(c, df.cols))
    IN  SelectColumns(df, front \o SelectSeq(df.cols, LAMBDA c : ~In(c, front)))

\* Line 79: df["id"] = df.index + 1
IdsFromIndex(df) == SetColumn(df, s_id, [i \in 1..nrows(df) |-> Num(df.index[i] + 1)])

\* The ids taken from the index the rows were read with.
AssignIds_keepIndex(df) == IF In(s_id, df.cols) THEN df ELSE IdsFromIndex(df)

\* Lines 77-79: without an id column, the index is renumbered and the ids
\* are the row positions.
AssignIds(df) == IF In(s_id, df.cols) THEN df ELSE IdsFromIndex(reset_index(df))

\* Line 76
AssignNames(df) ==
    IF In(s_name, df.cols) THEN df
    ELSE SetColumn(df, s_name, [i \in 1..nrows(df) |-> Str(<<>>)])

\* No range test at all.
InRange_unchecked(df) == df

\* Line 75: the rows inside [-90, 90] x [-180, 180]
InRange(df) ==
    FilterRows(df, [i \in 1..nrows(df) |->
        /\ between(Cell(df, df.rows[i], s_lat), -90, 90)
        /\ between(Cell(df, df.rows[i], s_lon), -180, 180)])

\* Line 74: df.dropna(subset=["lat", "lon"])
DropMissing(df) ==
    FilterRows(df, [i \in 1..nrows(df) |->
        \A j \in 1..Len(df.cols) : df.cols[j] \in {s_lat, s_lon} => ~isna(df.rows[i][j])])

\* pd.to_numeric(df[c], errors="coerce") for a label c that is unique
NumericColumn(df, c) == [i \in 1..nrows(df) |-> to_numeric(Column(df, c)[i])]

\* Lines 74-82.  df["lat"] is a DataFrame, not a Series, when the label lat
\* repeats, and a DataFrame has no method between: AttributeError.
CleanAndOrder(df) ==
    IF CountCol(df, s_lat) > 1 \/ CountCol(df, s_lon) > 1 THEN Raised("AttributeError")
    ELSE Returned(OrderColumns(AssignIds(AssignNames(InRange(DropMissing(df))))))

\* Line 73.  pd.to_numeric raises TypeError when handed a DataFrame, which
\* df[lon_col] is when the label lon_col repeats.
CoerceLon(df, lon_col) ==
    IF CountCol(df, lon_col) > 1 THEN Raised("TypeError")
    ELSE CleanAndOrder(SetColumn(df, s_lon, NumericColumn(df, lon_col)))

\* Lines 70-72
CoerceLat(df, lat_col, lon_col) ==
    IF lat_col = None \/ lon_col = None THEN Raised("ValueError")
    ELSE IF CountCol(df, lat_col) > 1 THEN Raised("TypeError")
    ELSE CoerceLon(SetColumn(df, s_lat, NumericColumn(df, lat_col)), lon_col)

\* Lines 68-69
FindCoordinates(df) ==
    CoerceLat(df, FirstAlias(df.cols, LatAliases), FirstAlias(df.cols, LonAliases))

\* Line 67: every label trimmed and lower-cased.
RenameColumns(df) ==
    [df EXCEPT !.cols = [j \in 1..Len(df.cols) |-> lower(strip(df.cols[j]))]]

\* The result is [exc, df]: exc = "none" and the table returned, or the
\* exception raised.
normalize_columns(raw) == FindCoordinates(RenameColumns(raw))

(***************************************************************************)
(* bbox_filter                                                             *)
(***************************************************************************)
BBox(west, south, east, north) ==
    [west |-> west, south |-> south, east |-> east, north |-> north]

\* pd.concat([a, b], ignore_index=True) of two tables with the same columns
concat(a, b) ==
    DataFrame(a.cols, [i \in 1..(nrows(a) + nrows(b)) |-> i - 1], a.rows \o b.rows)

\* One pass over the rows, also for a box that crosses the antimeridian.
bbox_filter_onePass(df, bbox) ==
    FilterRows(df, [i \in 1..nrows(df) |->
        /\ between(Cell(df, df.rows[i], s_lat), bbox.south, bbox.north)
        /\ IF bbox.east < bbox.west
           THEN \/ Cell(df, df.rows[i], s_lon).n >= bbox.west
                \/ Cell(df, df.rows[i], s_lon).n <= bbox.east
           ELSE between(Cell(df, df.rows[i], s_lon), bbox.west, bbox.east)])

\* df["lat"].between(south, north), df["lon"] >= west and df["lon"] <= east,
\* each a boolean Series; a comparison with a missing value is False.
LatBetween(df, south, north) ==
    [i \in 1..nrows(df) |-> between(Cell(df, df.rows[i], s_lat), south, north)]

LonAtLeast(df, west) ==
    [i \in 1..nrows(df) |->
        Cell(df, df.rows[i], s_lon).t = "num" /\ Cell(df, df.rows[i], s_lon).n >= west]

LonAtMost(df, east) ==
    [i \in 1..nrows(df) |->
        Cell(df, df.rows[i], s_lon).t = "num" /\ Cell(df, df.rows[i], s_lon).n <= east]

LonBetween(df, west, east) ==
    [i \in 1..nrows(df) |-> between(Cell(df, df.rows[i], s_lon), west, east)]

\* a & b of two boolean Series
MaskAnd(a, b) == [i \in 1..Len(a) |-> a[i] /\ b[i]]

bbox_filter(df, bbox) ==
    IF bbox.east < bbox.west
    THEN concat(FilterRows(df, MaskAnd(LonAtLeast(df, bbox.west),
                                       LatBetween(df, bbox.south, bbox.north))),
                FilterRows(df, MaskAnd(LonAtMost(df, bbox.east),
                                       LatBetween(df, bbox.south, bbox.north))))
    ELSE FilterRows(df, MaskAnd(LonBetween(df, bbox.west, bbox.east),
                                LatBetween(df, bbox.south, bbox.north)))

(***************************************************************************)
(* haversine_m, in fixed point                                             *)
(***************************************************************************)
R == 6371000

\* The scale of a sine or cosine: TrigOne stands for 1.0.
TrigOne == 10000

\* SinTable[k + 1] = floor(TrigOne * sin(k / 2 degrees)), k = 0 .. 180
SinTable == <<
    0, 87, 174, 261, 348, 436, 523, 610, 697, 784, 871, 958,
    1045, 1132, 1218, 1305, 1391, 1478, 1564, 1650, 1736, 1822, 1908, 1993,
    2079, 2164, 2249, 2334, 2419, 2503, 2588, 2672, 2756, 2840, 2923, 3007,
    3090, 3173, 3255, 3338, 3420, 3502, 3583, 3665, 3746, 3826, 3907, 3987,
    4067, 4146, 4226, 4305, 4383, 4461, 4539, 4617, 4694, 4771, 4848, 4924,
    5000, 5075, 5150, 5224, 5299, 5372, 5446, 5519, 5591, 5664, 5735, 5807,
    5877, 5948, 6018, 6087, 6156, 6225, 6293, 6360, 6427, 6494, 6560, 6626,
    6691, 6755, 6819, 6883, 6946, 7009, 7071, 7132, 7193, 7253, 7313, 7372,
    7431, 7489, 7547, 7604, 7660, 7716, 7771, 7826, 7880, 7933, 7986, 8038,
    8090, 8141, 8191, 8241, 8290, 8338, 8386, 8433, 8480, 8526, 8571, 8616,
    8660, 8703, 8746, 8788, 8829, 8870, 8910, 8949, 8987, 9025, 9063, 9099,
    9135, 9170, 9205, 9238, 9271, 9304, 9335, 9366, 9396, 9426, 9455, 9483,
    9510, 9537, 9563, 9588, 9612, 9636, 9659, 9681, 9702, 9723, 9743, 9762,
    9781, 9799, 9816, 9832, 9848, 9862, 9876, 9890, 9902, 9914, 9925, 9935,
    9945, 9953, 9961, 9969, 9975, 9981, 9986, 9990, 9993, 9996, 9998, 9999,
    10000 >>

\* The sine of m thousandths of a half-degree, 0 <= m <= 180000 (0 to 90
\* degrees), interpolated between the entries of the table.
SinQuadrant(m) ==
    LET k == m \div 1000
        f == m % 1000
    IN  IF f = 0 THEN SinTable[k + 1]
        ELSE SinTable[k + 1] + ((SinTable[k + 2] - SinTable[k + 1]) * f) \div 1000

\* math.sin of an angle of a thousandths of a half-degree
SinM(a) ==
    LET m == a % 720000
    IN  IF m <= 180000 THEN SinQuadrant(m)
        ELSE IF m <= 360000 THEN SinQuadrant(360000 - m)
        ELSE IF m <= 540000 THEN 0 - SinQuadrant(m - 360000)
        ELSE 0 - SinQuadrant(720000 - m)

CosM(a) == SinM(180000 - a)

\* math.sin of an angle of h half-degrees
SinH(h) == SinM(1000 * h)

\* math.cos of an angle of h half-degrees
CosH(h) == SinH(180 - h)

\* math.sqrt of v, 0 <= v <= 4 * TrigOne^2 at scale TrigOne^2, the root at
\* scale TrigOne
RECURSIVE SqrtBetween(_, _, _)
SqrtBetween(v, lo, hi) ==
    IF lo >= hi THEN lo
    ELSE LET mid == (lo + hi + 1) \div 2
         IN  IF mid * mid <= v THEN SqrtBetween(v, mid, hi)
             ELSE SqrtBetween(v, lo, mid - 1)

Sqrt(v) == SqrtBetween(v, 0, 2 * TrigOne)

\* math.asin of x in [0, 1] at scale TrigOne, in thousandths of a half-degree,
\* interpolated between the entries of the table
RECURSIVE TableIndex(_, _, _)
TableIndex(x, lo, hi) ==
    IF lo >= hi THEN lo
    ELSE LET mid == (lo + hi + 1) \div 2
         IN  IF SinTable[mid + 1] <= x THEN TableIndex(x, mid, hi)
             ELSE TableIndex(x, lo, mid - 1)

AsinAt(x, k) ==
    1000 * k + (1000 * (x - SinTable[k + 1])) \div (SinTable[k + 2] - SinTable[k + 1])

Asin(x) == IF x >= TrigOne THEN 180000 ELSE AsinAt(x, TableIndex(x, 0, 179))

\* R * pi / 180 metres to the half-degree of asin, that is 2 * R * asin(...);
\* in tenths of a metre to the thousandth of a half-degree.
MetresPerStep == ((R \div 1000) * 31416) \div 180000

\* Arguments in whole degrees, result in whole metres.
haversine_m(lon1, lat1, lon2, lat2) ==
    LET da == lat2 - lat1
        db == lon2 - lon1
        cc == (CosH(2 * lat1) * CosH(2 * lat2)) \div TrigOne
        s == SinH(da) * SinH(da) + ((cc * SinH(db)) \div TrigOne) * SinH(db)
    IN  (Asin(Sqrt(s)) * MetresPerStep) \div 10

(***************************************************************************)
(* within_radius                                                           *)
(***************************************************************************)
\* hits["distance_m"] = d on a copy of df
WithDistances(df, lon, lat) ==
    SetColumn(df, s_distance_m,
        [i \in 1..nrows(df) |->
            Num(haversine_m(lon, lat, Cell(df, df.rows[i], s_lon).n,
                                      Cell(df, df.rows[i], s_lat).n))])

\* The orders sort_values may leave the rows in: any arrangement in which the
\* key never decreases.  The default sort kind is quicksort, which promises
\* nothing about the order of rows with equal keys.
SortedOrders(df, c) ==
    {p \in Permutations(1..nrows(df)) :
        \A i \in 1..(nrows(df) - 1) :
            Cell(df, df.rows[p[i]], c).n <= Cell(df, df.rows[p[i + 1]], c).n}

Reorder(df, p) ==
    [df EXCEPT !.index = [i \in 1..nrows(df) |-> df.index[p[i]]],
               !.rows = [i \in 1..nrows(df) |-> df.rows[p[i]]]]

sort_values(df, c) == {Reorder(df, p) : p \in SortedOrders(df, c)}

\* The rows strictly nearer than radius_m.
Near_strict(hits, radius_m) ==
    FilterRows(hits, [i \in 1..nrows(hits) |->
                         Cell(hits, hits.rows[i], s_distance_m).n < radius_m])

\* hits[hits["distance_m"] <= radius_m]
Near(hits, radius_m) ==
    FilterRows(hits, [i \in 1..nrows(hits) |->
                         Cell(hits, hits.rows[i], s_distance_m).n <= radius_m])

\* Every table within_radius may return.
within_radius(df, lon, lat, radius_m) ==
    sort_values(Near(WithDistances(df, lon, lat), radius_m), s_distance_m)

(***************************************************************************)
(* circle_polygon, in fixed point; angles in thousandths of a half-degree  *)
(***************************************************************************)
Abs(x) == IF x < 0 THEN 0 - x ELSE x

\* math.asin of x in [-1, 1] at scale TrigOne
AsinS(x) == IF x < 0 THEN 0 - Asin(0 - x) ELSE Asin(x)

\* math.atan2(y, x), y and x at scale TrigOne
Atan2(y, x) ==
    LET r == Sqrt(x * x + y * y)
        a == IF r = 0 THEN 0 ELSE Asin((Abs(y) * TrigOne) \div r)
        t == IF x >= 0 THEN a ELSE 360000 - a
    IN  IF y < 0 THEN 0 - t ELSE t

DefaultSteps == 64

\* A double: v is its value at the resolution of the model, r the sign of
\* what it holds beyond v, too small for v to show (0 when nothing).
Fl(v, r) == [v |-> v, r |-> r]

\* math.sin(brg) where the sine of the exact angle is 0: brg is the double
\* nearest to the angle, and math.sin(math.pi) = 1.22e-16,
\* math.sin(2 * math.pi) = -2.45e-16, math.sin(0.0) = 0.0.
SinResidue(brg) == IF brg = 720000 THEN -1 ELSE IF brg = 360000 THEN 1 ELSE 0

\* The first argument of atan2 at lines 129: sin(ang_dist) and cos(lat0)
\* are positive doubles for a positive radius, so the product is 0.0 only
\* where sin(brg) is or the radius is 0.
BearingEast(lat0, ang_dist, brg, radius_m) ==
    Fl((((SinM(brg) * SinM(ang_dist)) \div TrigOne) * CosM(lat0)) \div TrigOne,
       IF radius_m > 0 THEN SinResidue(brg) ELSE 0)

\* math.atan2(y, x) for a double y: a y below resolution gives an angle
\* below resolution when x > 0, and pi with the sign of y when x < 0.
Atan2Fl(y, x) ==
    IF y.v # 0 \/ y.r = 0 THEN Fl(Atan2(y.v, x), 0)
    ELSE IF x > 0 THEN Fl(0, y.r)
    ELSE IF x = 0 THEN Fl(y.r * 180000, 0)
    ELSE Fl(y.r * 360000, 0)

\* The binary exponent of an angle a in radians, for a of 1 to 180 degrees
\* either side of 0 (one radian is 114592 thousandths of a half-degree).
Exponent(a) ==
    CHOOSE e \in -6..1 :
        IF e < 0
        THEN 114592 <= Abs(a) * 2^(0 - e) /\ Abs(a) * 2^(0 - e) < 2 * 114592
        ELSE 114592 * 2^e <= Abs(a) /\ Abs(a) < 2 * 114592 * 2^e

\* lon0 + d for an angle d below resolution, of size
\* 2.45e-16 * sin(ang_dist) * cos(lat0) / x = 2.206 * 2^-53 * y / x: the sum
\* is lon0 again unless d exceeds half the spacing 2^(e - 52) of the doubles
\* at lon0, and any d changes a lon0 of 0.0.
Absorbs(lon0, y, x) ==
    /\ lon0 # 0
    /\ IF Exponent(lon0) < 0
       THEN 2206 * y * 2^(0 - Exponent(lon0)) <= 1000 * x
       ELSE 2206 * y <= 1000 * x * 2^Exponent(lon0)

\* Line 129: lon0 + atan2(...), y the size of the first argument without
\* sin(brg)
AddAngle(lon0, d, y, x) ==
    IF d.r = 0 THEN Fl(lon0 + d.v, 0)
    ELSE IF Absorbs(lon0, y, x) THEN Fl(lon0, 0)
    ELSE Fl(lon0, d.r)

\* Lines 129-131, latp known
DestinationLon(lon0, lat0, ang_dist, brg, latp, radius_m) ==
    AddAngle(lon0,
             Atan2Fl(BearingEast(lat0, ang_dist, brg, radius_m),
                     CosM(ang_dist) - (SinM(lat0) * SinM(latp)) \div TrigOne),
             (SinM(ang_dist) * CosM(lat0)) \div TrigOne,
             CosM(ang_dist) - (SinM(lat0) * SinM(latp)) \div TrigOne)

\* Lines 127-128: math.cos(brg) is 1.0 at both ends of the ring, so latp has
\* nothing beyond the value the model gives it.
DestinationLat(lat0, ang_dist, brg) ==
    AsinS((SinM(lat0) * CosM(ang_dist)) \div TrigOne
          + (((CosM(lat0) * SinM(ang_dist)) \div TrigOne) * CosM(brg)) \div TrigOne)

Destination(lon0, lat0, ang_dist, brg, latp, radius_m) ==
    <<DestinationLon(lon0, lat0, ang_dist, brg, latp, radius_m), Fl(latp, 0)>>

\* The vertex at bearing 2 * pi * (i / steps): [lon, lat] as doubles, in
\* thousandths of a half-degree.
CircleVertex(lon, lat, ang_dist, brg, radius_m) ==
    Destination(2000 * lon, 2000 * lat, ang_dist, brg,
                DestinationLat(2000 * lat, ang_dist, brg), radius_m)

\* Lines 124-131, for steps >= 1: the vertices for i = 0 .. steps
Ring(lon, lat, radius_m, steps) ==
    [k \in 1..(steps + 1) |->
        CircleVertex(lon, lat, (radius_m * 20) \div MetresPerStep,
                     (720000 * (k - 1)) \div steps, radius_m)]

\* For steps >= 1: line 126 divides by steps, and range(steps + 1) is empty
\* for a negative steps.
circle_polygon(lon, lat, radius_m, steps) ==
    [type |-> "Polygon", coordinates |-> <<Ring(lon, lat, radius_m, steps)>>]

(***************************************************************************)
(* df_to_geojson                                                           *)
(***************************************************************************)
\* JSON null
Null == [t |-> "null", n |-> 0, s |-> <<>>]

Feature(geometry, properties) ==
    [type |-> "Feature", geometry |-> geometry, properties |-> properties]

\* A properties object: its keys in order, each with its value.
Prop(key, value) == [key |-> key, value |-> value]

\* A projection that leaves a missing value out of the properties.
FeaturesOf_dropMissing(df) ==
    LET props == SelectSeq(df.cols, LAMBDA c : c \notin {s_lat, s_lon})
    IN  [type |-> "FeatureCollection",
         features |-> [i \in 1..nrows(df) |->
             Feature([type |-> "Point",
                      coordinates |-> <<Cell(df, df.rows[i], s_lon).n,
                                        Cell(df, df.rows[i], s_lat).n>>],
                     Flatten([k \in 1..Len(props) |->
                         IF isna(Cell(df, df.rows[i], props[k])) THEN <<>>
                         ELSE <<Prop(props[k], Cell(df, df.rows[i], props[k]))>>]))]]

\* Lines 87-95, for a table whose labels are distinct
FeaturesOf(df) ==
    LET props == SelectSeq(df.cols, LAMBDA c : c \notin {s_lat, s_lon})
        value(c) == IF isna(c) THEN Null ELSE c
    IN  [type |-> "FeatureCollection",
         features |-> [i \in 1..nrows(df) |->
             Feature([type |-> "Point",
                      coordinates |-> <<Cell(df, df.rows[i], s_lon).n,
                                        Cell(df, df.rows[i], s_lat).n>>],
                     [k \in 1..Len(props) |->
                         Prop(props[k], value(Cell(df, df.rows[i], props[k])))])]]

\* What a call of df_to_geojson does: raise, or return a collection.
RaisedIn(e) == [exc |-> e, fc |-> <<>>]
ReturnedFrom(fc) == [exc |-> "none", fc |-> fc]

\* Lines 89-94: r[c] of a label that repeats is a Series, and the condition
\* of line 93 raises on the Series pd.isna makes of it; a table without rows
\* is not iterated.
ProjectRows(df) ==
    IF nrows(df) > 0 /\ \E c \in Range(df.cols) \ {s_lat, s_lon} : CountCol(df, c) > 1
    THEN RaisedIn("ValueError")
    ELSE ReturnedFrom(FeaturesOf(df))

\* A projection of the whole table whatever the limit.
df_to_geojson_noLimit(df, limit) == ProjectRows(df)

\* limit is NoneVal or a number.
df_to_geojson(df, limit) ==
    ProjectRows(IF limit # NoneVal THEN head(df, limit.n) ELSE df)

(***************************************************************************)
(* Bounded inputs of normalize_columns: the tables pd.read_csv can hand it *)
(***************************************************************************)
MaxRows == 2

t10 == Str(<<"1", "0">>)
tm90 == Str(<<"-", "9", "0">>)
t170 == Str(<<"1", "7", "0">>)
t200 == Str(<<"2", "0", "0">>)
tabc == Str(<<"a", "b", "c">>)
tA == Str(<<"A">>)
t7 == Str(<<"7">>)

\* 10 and -90 are valid as lat and as lon, 170 as lon only, 200 as neither;
\* "abc" does not parse and NaN is an empty CSV field.
CoordFull == {t10, tm90, t170, t200, NaN}
CoordSmall == {t10, t170, tabc}
CoordTwo == {t10, t200}
TextCells == {tA, NaN}
IdCells == {t7, t10}

\* A family of raw tables: the header as written in the file, and the cells
\* each column draws from.
Family(cols, cells) == [cols |-> cols, cells |-> cells]

InputFamilies == {
    Family(<<s_lat, s_lon>>, <<CoordFull, CoordFull>>),
    Family(<<<<"L", "A", "T">>, <<"L", "o", "n", "g", "i", "t", "u", "d", "e">>>>,
           <<CoordSmall, CoordSmall>>),
    Family(<<<<" ", "Y">>, <<"x", " ">>, <<"N", "a", "m", "e">>>>,
           <<CoordSmall, CoordSmall, TextCells>>),
    Family(<<s_y, s_lat, s_lon>>, <<CoordSmall, CoordSmall, CoordTwo>>),
    Family(<<s_lng, s_x, s_lon, s_latitude>>, <<CoordTwo, CoordTwo, CoordTwo, CoordTwo>>),
    Family(<<<<"I", "D">>, s_lat, s_lon>>, <<IdCells, CoordSmall, CoordSmall>>),
    Family(<<s_name, <<"p", "o", "p">>>>, <<TextCells, CoordTwo>>),
    Family(<<s_lat, s_name>>, <<CoordTwo, TextCells>>),
    Family(<<s_lat, <<"L", "A", "T">>, s_lon>>, <<CoordTwo, CoordTwo, CoordTwo>>),
    Family(<<s_latitude, s_lat, <<" ", "l", "a", "t">>, s_lon>>,
           <<CoordTwo, CoordTwo, CoordTwo, CoordTwo>>),
    Family(<<s_lat, s_lon, <<"L", "n", "g">>, s_lng>>,
           <<CoordTwo, CoordTwo, CoordTwo, CoordTwo>>) }

\* The rows a family allows: one cell per column from that column's set.
FamilyRows(f) ==
    {r \in [1..Len(f.cols) -> UNION Range(f.cells)] :
        \A j \in 1..Len(f.cols) : r[j] \in f.cells[j]}

\* pd.read_csv numbers the rows 0, 1, 2, ...
Raw(cols, rows) == DataFrame(cols, [i \in 1..Len(rows) |-> i - 1], rows)

\* The raw tables of family f with n rows
RawTablesOf(f, n) == {Raw(f.cols, rows) : rows \in [1..n -> FamilyRows(f)]}

(***************************************************************************)
(* The layer store                                                         *)
(***************************************************************************)
\* LAYERS is a dict: its keys in insertion order, each with its table.
Entry(name, df) == [name |-> name, df |-> df]

DemoName == <<"a", "p", "p", ".", "d", "e", "m", "o">>

DemoLayer ==
    DataFrame(<<s_id, s_name, s_lat, s_lon>>, <<0>>,
              <<<<Num(1), Str(<<"S", "J", "S", "U">>), Num(37), Num(-122)>>>>)

Keys(d) == {d[i].name : i \in 1..Len(d)}

\* d[name], for a key of d
Get(d, name) == d[CHOOSE i \in 1..Len(d) : d[i].name = name].df

\* A store that keeps the table a key already has.
Put_keepExisting(d, name, df) ==
    IF name \in Keys(d) THEN d ELSE Append(d, Entry(name, df))

\* d[name] = df: an existing key keeps its place, a new key goes last.
Put(d, name, df) ==
    IF name \in Keys(d)
    THEN [i \in 1..Len(d) |-> IF d[i].name = name THEN Entry(name, df) ELSE d[i]]
    ELSE Append(d, Entry(name, df))

\* del d[name]
Del(d, name) == SelectSeq(d, LAMBDA e : e.name # name)

(***************************************************************************)
(* Python str and number helpers used by the handlers                      *)
(***************************************************************************)
\* The characters of layer names, in code-point order.
AsciiChars == <<
    " ", ".", "0", "1", "2", "3", "4", "5", "6", "7", "8", "9",
    "A", "B", "C", "D", "E", "F", "G", "H", "I", "J", "K", "L", "M",
    "N", "O", "P", "Q", "R", "S", "T", "U", "V", "W", "X", "Y", "Z", "_",
    "a", "b", "c", "d", "e", "f", "g", "h", "i", "j", "k", "l", "m",
    "n", "o", "p", "q", "r", "s", "t", "u", "v", "w", "x", "y", "z" >>

ord(c) == CHOOSE i \in 1..Len(AsciiChars) : AsciiChars[i] = c

\* Python a < b on str: the first differing character decides, a proper
\* prefix is smaller.
RECURSIVE StrLess(_, _)
StrLess(a, b) ==
    IF b = <<>> THEN FALSE
    ELSE IF a = <<>> THEN TRUE
    ELSE IF Head(a) # Head(b) THEN ord(Head(a)) < ord(Head(b))
    ELSE StrLess(Tail(a), Tail(b))

\* str.isdigit()
isdigit(s) == s # <<>> /\ \A i \in 1..Len(s) : s[i] \in Digits

\* os.path.splitext(name)[0]: the name without its last extension; a name
\* that is all dots up to its last dot has none.
splitext_root(name) ==
    LET dots == Positions([i \in 1..Len(name) |-> name[i] = "."])
        last == IF dots = <<>> THEN 0 ELSE dots[Len(dots)]
    IN  IF last = 0 \/ \A i \in 1..(last - 1) : name[i] = "." THEN name
        ELSE SubSeq(name, 1, last - 1)

\* float(v) and int(v) of a request value: a text is parsed, a value that is
\* absent or does not parse raises (the result is NaN here).
ParseParam(v) == IF v.t = "str" THEN ParseNumber(v.s) ELSE IF v.t = "num" THEN v ELSE NaN

RECURSIVE FormatNat(_)
FormatNat(n) ==
    LET d == <<"0", "1", "2", "3", "4", "5", "6", "7", "8", "9">>[(n % 10) + 1]
    IN  IF n < 10 THEN <<d>> ELSE Append(FormatNat(n \div 10), d)

\* A cell as DataFrame.to_csv writes it: a missing value is an empty field.
FormatCell(c) ==
    IF c.t = "num" THEN (IF c.n < 0 THEN <<"-">> \o FormatNat(0 - c.n) ELSE FormatNat(c.n))
    ELSE IF c.t = "str" THEN c.s
    ELSE <<>>

\* df.to_csv(index=False): the header line, then one line of fields per row.
to_csv(df) ==
    [header |-> df.cols,
     lines |-> [i \in 1..nrows(df) |->
                   [j \in 1..Len(df.cols) |-> FormatCell(df.rows[i][j])]]]

\* list.sort(key=...): stable, by Python's < on the keys.
RECURSIVE InsertByKey(_, _, _)
InsertByKey(sorted, item, key) ==
    IF sorted = <<>> THEN <<item>>
    ELSE IF StrLess(key, lower(Head(sorted).name))
         THEN <<item>> \o sorted
         ELSE <<Head(sorted)>> \o InsertByKey(Tail(sorted), item, key)

\* The same sort with the names compared as written.
RECURSIVE InsertByName(_, _)
InsertByName(sorted, item) ==
    IF sorted = <<>> THEN <<item>>
    ELSE IF StrLess(item.name, Head(sorted).name)
         THEN <<item>> \o sorted
         ELSE <<Head(sorted)>> \o InsertByName(Tail(sorted), item)

RECURSIVE SortByLowerName_caseSensitive(_)
SortByLowerName_caseSensitive(items) ==
    IF items = <<>> THEN <<>>
    ELSE InsertByName(SortByLowerName_caseSensitive(SubSeq(items, 1, Len(items) - 1)),
                      items[Len(items)])

RECURSIVE SortByLowerName(_)
SortByLowerName(items) ==
    IF items = <<>> THEN <<>>
    ELSE LET n == Len(items)
         IN  InsertByKey(SortByLowerName(SubSeq(items, 1, n - 1)), items[n],
                         lower(items[n].name))

(***************************************************************************)
(* Responses: ok(data) and err(msg, status)                                *)
(***************************************************************************)
ok(op, data) == [op |-> op, status |-> 200, error |-> "", body |-> data]
err(op, msg, status) == [op |-> op, status |-> status, error |-> msg, body |-> <<>>]

(***************************************************************************)
(* Bounded requests                                                        *)
(***************************************************************************)
s_t == <<"t">>
s_B == <<"B">>

\* The files uploaded, all named t.csv: two valid rows; a dropped row, a
\* missing name, an id column and an extra column; one out-of-range row
\* only; no coordinate columns; colliding lat labels; colliding name labels.
UploadTables == {
    Raw(<<s_name, <<"N", "a", "m", "e">>, s_lat, s_lon>>, <<<<tA, NaN, t10, t170>>>>),
    Raw(<<s_lat, s_lon>>, <<<<t10, t10>>, <<t10, t170>>>>),
    Raw(<<<<"L", "A", "T">>, <<"L", "o", "n", "g", "i", "t", "u", "d", "e">>,
          <<"N", "a", "m", "e">>, <<"I", "D">>>>,
        <<<<tabc, t10, tA, t7>>, <<tm90, t170, NaN, t7>>, <<t10, tm90, tA, t10>>>>),
    Raw(<<s_y, s_x>>, <<<<t200, t10>>>>),
    Raw(<<s_name, <<"p", "o", "p">>>>, <<<<tA, t10>>>>),
    Raw(<<s_lat, <<"L", "A", "T">>, s_lon>>, <<<<t10, t10, t10>>>>) }


\* An uploaded file: its name and the table pd.read_csv makes of its bytes.
Upload(filename, df) == [present |-> TRUE, filename |-> filename, df |-> df]
NoFile == [present |-> FALSE, filename |-> <<>>, df |-> EmptyDF]

s_t_csv == <<"t", ".", "c", "s", "v">>
s_B_form == <<" ", "B", " ">>
s_blank == <<" ">>

ImportRequest(file, form_layer) == [file |-> file, layer |-> form_layer]

\* The imports: every file under its own name; some under the form names
\* " B " and " " (None is an absent or empty field); one without a
\* filename and one without a file.
ImportRequests ==
    {ImportRequest(Upload(s_t_csv, df), None) : df \in UploadTables}
    \cup {ImportRequest(Upload(s_t_csv, df), s_B_form) : df \in UploadTables}
    \cup {ImportRequest(Upload(s_t_csv, Raw(<<s_lat, s_lon>>, <<<<t10, t10>>, <<t10, t170>>>>)),
                        s_blank),
          ImportRequest(Upload(<<>>, EmptyDF), None),
          ImportRequest(NoFile, None)}

\* The layer named by a request: absent or empty (None), or a name that may
\* be stored.
QueryNames == {None, s_t, s_B, DemoName}
BodyNames == {s_t, DemoName}

bbox_wrap == <<<<"1", "7", "0">>, <<"-", "9", "0">>, <<"-", "1", "7", "0">>, <<"9", "0">>>>
bbox_bad == <<<<"0">>, <<"0">>, <<"w">>, <<"9", "0">>>>
limit_1 == <<"1">>
limit_x == <<"x">>
limit_3 == <<"3">>

LayerRequest(layer, bbox, limit) == [layer |-> layer, bbox |-> bbox, limit |-> limit]

LayerRequests ==
    {LayerRequest(None, None, None),
     LayerRequest(s_t, None, None),
     LayerRequest(s_t, None, limit_1),
     LayerRequest(s_t, None, limit_3),
     LayerRequest(s_t, bbox_wrap, limit_1),
     LayerRequest(s_t, bbox_bad, limit_x),
     LayerRequest(DemoName, None, limit_1),
     LayerRequest(DemoName, None, limit_x),
     LayerRequest(DemoName, bbox_wrap, None),
     LayerRequest(DemoName, bbox_bad, None)}

\* Values of a JSON body: absent (NoneVal), or a text.
t20000km == Str(<<"2", "0", "0", "0", "0", "0", "0", "0">>)
Points == {[lon |-> t10, lat |-> t10], [lon |-> tabc, lat |-> t10]}
RadiusValues == {NoneVal, t20000km}

BufferRequest(layer, pt, radius_m, limit) ==
    [layer |-> layer, lon |-> pt.lon, lat |-> pt.lat, radius_m |-> radius_m, limit |-> limit]

BufferRequests ==
    {BufferRequest(layer, pt, NoneVal, NoneVal) : layer \in BodyNames, pt \in Points}
    \cup {BufferRequest(layer, [lon |-> t10, lat |-> t10], t20000km, Str(limit_1)) :
             layer \in BodyNames}
    \cup {BufferRequest(s_t, [lon |-> t10, lat |-> t10], t20000km, Str(limit_x))}

CompareRequest(la, lb, distance_m) == [layerA |-> la, layerB |-> lb, distance_m |-> distance_m]

CompareRequests ==
    {CompareRequest(la, lb, t20000km) : la \in BodyNames, lb \in BodyNames}
    \cup {CompareRequest(s_t, DemoName, NoneVal), CompareRequest(s_t, DemoName, tabc),
          CompareRequest(DemoName, DemoName, tabc)}

\* The store of the model holds at most MaxLayers layers.
MaxLayers == 2

(***************************************************************************)
(* The handlers.  Each yields the response; import_csv and delete_layer    *)
(* also yield the store they leave.                                        *)
(***************************************************************************)
\* The tables of the uploads and the rings of the queried circles are
\* computed once and looked up afterwards.
NormalizedUploads == [df \in UploadTables \cup {EmptyDF} |-> normalize_columns(df)]

DefaultRadius == 500
DefaultLimit == 200
DefaultDistance == 200

s_kind == <<"_", "k", "i", "n", "d">>
s_radius_m == <<"r", "a", "d", "i", "u", "s", "_", "m">>
s_buffer == <<"b", "u", "f", "f", "e", "r">>

\* Line 166
ImportName(file, form_layer) ==
    strip(IF form_layer # None THEN form_layer ELSE splitext_root(file.filename))

\* GET /layers
list_layers(layers) ==
    ok("list_layers",
       [layers |-> SortByLowerName([i \in 1..Len(layers) |->
           [id |-> layers[i].name, name |-> layers[i].name,
            rows |-> nrows(layers[i].df), columns |-> layers[i].df.cols]])])

\* The same without the test for an empty table.
StoreNormalized_unchecked(layers, layer, n) ==
    IF n.exc = "ValueError"
    THEN [store |-> layers,
          resp |-> err("import_csv",
                       "CSV must include latitude/lat and longitude/lon columns.", 400)]
    ELSE IF n.exc # "none"
    THEN [store |-> layers, resp |-> err("import_csv", "Failed to import CSV", 400)]
    ELSE [store |-> Put(layers, layer, n.df),
          resp |-> ok("import_csv", [layer |-> layer, rows |-> nrows(n.df),
                                     columns |-> n.df.cols])]

\* Lines 176-184, n being what normalize_columns gave: [store, resp]
StoreNormalized(layers, layer, n) ==
    IF n.exc = "ValueError"
    THEN [store |-> layers,
          resp |-> err("import_csv",
                       "CSV must include latitude/lat and longitude/lon columns.", 400)]
    ELSE IF n.exc # "none"
    THEN [store |-> layers, resp |-> err("import_csv", "Failed to import CSV", 400)]
    ELSE IF nrows(n.df) = 0
    THEN [store |-> layers,
          resp |-> err("import_csv", "No valid rows with lat/lon found after cleaning.", 400)]
    ELSE [store |-> Put(layers, layer, n.df),
          resp |-> ok("import_csv", [layer |-> layer, rows |-> nrows(n.df),
                                     columns |-> n.df.cols])]

\* POST /importCSV: [store, resp]
import_csv(layers, file, form_layer) ==
    IF ~file.present
    THEN [store |-> layers, resp |-> err("import_csv", "Missing file part 'file'", 400)]
    ELSE IF file.filename = <<>>
    THEN [store |-> layers, resp |-> err("import_csv", "Empty filename", 400)]
    ELSE StoreNormalized(layers, ImportName(file, form_layer), NormalizedUploads[file.df])

\* float() of each field of a bbox parameter split at its commas
BBoxFields(fields) == [k \in 1..Len(fields) |-> ParseNumber(fields[k])]

\* Line 203: four fields that all parse, or the unpacking or float() raises.
UnpackBBox(v) ==
    IF Len(v) # 4 \/ \E k \in 1..Len(v) : v[k].t # "num" THEN [t |-> "none"]
    ELSE [t |-> "bbox", box |-> BBox(v[1].n, v[2].n, v[3].n, v[4].n)]

\* Line 209
ParseLimit(limit) ==
    IF limit # None /\ isdigit(limit) THEN ParseNumber(limit) ELSE NoneVal

\* Line 211: no handler catches what df_to_geojson raises, and Flask
\* answers 500.
LayerAnswer(p) ==
    IF p.exc # "none" THEN err("get_layer", "Internal Server Error", 500)
    ELSE ok("get_layer", p.fc)

\* Lines 199-211, the layer being stored
QueryLayer(df, bbox, box, limit) ==
    IF bbox # None /\ box.t = "none"
    THEN err("get_layer", "bbox must be west,south,east,north", 400)
    ELSE LayerAnswer(df_to_geojson(IF bbox # None THEN bbox_filter(df, box.box) ELSE df,
                                   ParseLimit(limit)))

\* GET /getLayer.  layer and limit are None or a str; bbox is None or the
\* fields of the parameter.
get_layer(layers, layer, bbox, limit) ==
    IF layer = None THEN err("get_layer", "Missing ?layer=name", 400)
    ELSE IF layer \notin Keys(layers) THEN err("get_layer", "Unknown layer", 404)
    ELSE QueryLayer(Get(layers, layer), bbox, UnpackBBox(BBoxFields(bbox)), limit)

QueriedCircles ==
    {<<ParseParam(p.lon).n, ParseParam(p.lat).n, r>> :
        p \in Points, r \in {DefaultRadius} \cup {ParseParam(v).n : v \in RadiusValues}}

CircleRings == [c \in QueriedCircles |-> circle_polygon(c[1], c[2], c[3], DefaultSteps)]

\* Lines 225-233: what df_to_geojson raises is caught at line 232.
BufferAnswer(p, lon, lat, radius) ==
    IF p.exc # "none" THEN err("get_buffer", "Bad request", 400)
    ELSE ok("get_buffer",
            [p.fc EXCEPT !.features =
                Append(@, Feature(CircleRings[<<lon.n, lat.n, radius.n>>],
                                  <<Prop(s_kind, Str(s_buffer)), Prop(s_radius_m, radius)>>))])

\* Lines 218-231, the values of the body parsed (NaN where float() or int()
\* raises)
QueryBuffer(layers, layer, lon, lat, radius, limit) ==
    IF \E v \in {lon, lat, radius, limit} : v.t # "num"
    THEN {err("get_buffer", "Bad request", 400)}
    ELSE IF layer \notin Keys(layers) THEN {err("get_buffer", "Unknown layer", 404)}
    ELSE {BufferAnswer(df_to_geojson(head(hits, limit.n), NoneVal), lon, lat, radius) :
             hits \in within_radius(Get(layers, layer), lon.n, lat.n, radius.n)}

\* body.get(key, default)
OrDefault(v, default) == IF v = NoneVal THEN Num(default) ELSE v

\* POST /getBuffer: every response the handler may give.  lon, lat, radius_m
\* and limit are values of the body, NoneVal when the body has no such key.
get_buffer(layers, layer, lon_v, lat_v, radius_v, limit_v) ==
    QueryBuffer(layers, layer, ParseParam(lon_v), ParseParam(lat_v),
                ParseParam(OrDefault(radius_v, DefaultRadius)),
                ParseParam(OrDefault(limit_v, DefaultLimit)))

\* A within_radius that writes distance_m into the table it is passed.
Passed_inPlace(df, lon, lat) == WithDistances(df, lon, lat)

\* The table passed to within_radius once it has returned: line 115 copies
\* it and line 116 adds distance_m to the copy.
Passed(df, lon, lat) == df

\* The store once get_buffer has answered: line 224 passes the stored table
\* itself to within_radius, when the numbers parse and the layer is stored.
StoreQueried(layers, layer, lon, lat, radius, limit) ==
    IF (\E v \in {lon, lat, radius, limit} : v.t # "num") \/ layer \notin Keys(layers)
    THEN layers
    ELSE Put(layers, layer, Passed(Get(layers, layer), lon.n, lat.n))

StoreAfterBuffer(layers, layer, lon_v, lat_v, radius_v, limit_v) ==
    StoreQueried(layers, layer, ParseParam(lon_v), ParseParam(lat_v),
                 ParseParam(OrDefault(radius_v, DefaultRadius)),
                 ParseParam(OrDefault(limit_v, DefaultLimit)))

\* int(row.get("id", i + 1))
RowId(df, i) ==
    IF In(s_id, df.cols) THEN to_numeric(Cell(df, df.rows[i], s_id))
    ELSE Num(df.index[i] + 1)

RowDistance(A, i, B, j) ==
    haversine_m(Cell(A, A.rows[i], s_lon).n, Cell(A, A.rows[i], s_lat).n,
                Cell(B, B.rows[j], s_lon).n, Cell(B, B.rows[j], s_lat).n)

\* Lines 248-249
PairWithin(A, i, B, j, d, dist_m) ==
    IF d <= dist_m
    THEN <<[idA |-> RowId(A, i), idB |-> RowId(B, j), distance_m |-> d]>>
    ELSE <<>>

\* Lines 244-249
Pairs(A, B, dist_m) ==
    Flatten([i \in 1..nrows(A) |->
        Flatten([j \in 1..nrows(B) |->
            PairWithin(A, i, B, j, RowDistance(A, i, B, j), dist_m)])])

\* Line 249-252: int() of an id that is no number raises
PairsAnswer(pairs) ==
    IF \E k \in 1..Len(pairs) : pairs[k].idA.t # "num" \/ pairs[k].idB.t # "num"
    THEN err("compare_layers", "Bad request", 400)
    ELSE ok("compare_layers", [pairs |-> pairs])

CompareWithin(layers, la, lb, dist_m) ==
    IF dist_m.t # "num" THEN err("compare_layers", "Bad request", 400)
    ELSE IF la \notin Keys(layers) \/ lb \notin Keys(layers)
    THEN err("compare_layers", "One or both layers not found.", 404)
    ELSE PairsAnswer(Pairs(Get(layers, la), Get(layers, lb), dist_m.n))

\* POST /compareLayers
compare_layers(layers, la, lb, dist_v) ==
    CompareWithin(layers, la, lb, ParseParam(OrDefault(dist_v, DefaultDistance)))

\* GET /exportCSV
export_csv(layers, layer) ==
    IF layer = None THEN err("export_csv", "Missing ?layer=name", 400)
    ELSE IF layer \notin Keys(layers) THEN err("export_csv", "Unknown layer", 404)
    ELSE ok("export_csv", to_csv(Get(layers, layer)))

\* A delete that empties the store.
delete_layer_all(layers, layer) ==
    IF layer = None
    THEN [store |-> layers, resp |-> err("delete_layer", "Missing 'layer' value.", 400)]
    ELSE IF layer \notin Keys(layers)
    THEN [store |-> layers, resp |-> err("delete_layer", "Unknown layer", 404)]
    ELSE [store |-> <<>>,
          resp |-> ok("delete_layer", [layer |-> layer, deleted |-> TRUE])]

\* POST /deleteLayer: [store, resp]
delete_layer(layers, layer) ==
    IF layer = None
    THEN [store |-> layers, resp |-> err("delete_layer", "Missing 'layer' value.", 400)]
    ELSE IF layer \notin Keys(layers)
    THEN [store |-> layers, resp |-> err("delete_layer", "Unknown layer", 404)]
    ELSE [store |-> Del(layers, layer),
          resp |-> ok("delete_layer", [layer |-> layer, deleted |-> TRUE])]

NoCall == [op |-> "none"]

(***************************************************************************)
(* Specification of the pure functions: an input is drawn, then the        *)
(* function is applied to it.                                              *)
(***************************************************************************)
\* Canonical point tables for bbox_filter and within_radius: columns id,
\* name, lat, lon, ids 1..n, every coordinate valid.
PointLats == {0, 50}
PointLons == {-175, 0, 170, 175}

PointTable(coords) ==
    DataFrame(<<s_id, s_name, s_lat, s_lon>>, [i \in 1..Len(coords) |-> i - 1],
              [i \in 1..Len(coords) |->
                  <<Num(i), Str(<<>>), Num(coords[i][1]), Num(coords[i][2])>>])

PointTables == {PointTable(c) : c \in SeqsUpTo(PointLats \X PointLons, MaxRows)}

\* Two boxes that cross the antimeridian, two that do not.
BBoxes == {BBox(170, -10, -170, 10), BBox(175, 0, 0, 90),
           BBox(-175, 0, 170, 50), BBox(0, 10, 175, 90)}

BboxCalls == {[op |-> "bbox_filter", df |-> t, bbox |-> b] : t \in PointTables, b \in BBoxes}

\* The query points, and radii: none, the exact distance from (175, 0) to
\* (170, 0), and one that reaches every point.
QueryPoints == {<<175, 0>>, <<0, 50>>}
Radii == {0, haversine_m(175, 0, 170, 0), 4 * R}

RadiusCalls ==
    {[op |-> "within_radius", df |-> t, lon |-> q[1], lat |-> q[2], radius_m |-> r] :
        t \in PointTables, q \in QueryPoints, r \in Radii}

\* Centres on and off the prime meridian, near and far from a pole; no
\* radius, the default radius and one that passes the pole from latitude 80.
CircleLons == {0, 10}
CircleLats == {10, 80}
CircleRadii == {0, DefaultRadius, 2000000}
StepCounts == {3, 4, DefaultSteps}

CircleCalls ==
    {[op |-> "circle_polygon", lon |-> lon, lat |-> lat, radius_m |-> r, steps |-> n] :
        lon \in CircleLons, lat \in CircleLats, r \in CircleRadii, n \in StepCounts}

FnInit ==
    /\ LAYERS = <<Entry(DemoName, DemoLayer)>>
    /\ resp = NoCall
    /\ \/ \E f \in InputFamilies, n \in 0..MaxRows :
              \E raw \in RawTablesOf(f, n) :
                  req = [op |-> "normalize_columns", df |-> raw]
       \/ req \in BboxCalls
       \/ req \in RadiusCalls
       \/ req \in CircleCalls

CallNormalize ==
    /\ req.op = "normalize_columns"
    /\ resp.op = "none"
    /\ resp' = [op |-> req.op] @@ normalize_columns(req.df)
    /\ UNCHANGED <<LAYERS, req>>

CallBboxFilter ==
    /\ req.op = "bbox_filter"
    /\ resp.op = "none"
    /\ resp' = [op |-> req.op, df |-> bbox_filter(req.df, req.bbox)]
    /\ UNCHANGED <<LAYERS, req>>

CallWithinRadius ==
    /\ req.op = "within_radius"
    /\ resp.op = "none"
    /\ \E hits \in within_radius(req.df, req.lon, req.lat, req.radius_m) :
           resp' = [op |-> req.op, df |-> hits]
    /\ UNCHANGED <<LAYERS, req>>

CallCirclePolygon ==
    /\ req.op = "circle_polygon"
    /\ resp.op = "none"
    /\ resp' = [op |-> req.op,
                geometry |-> circle_polygon(req.lon, req.lat, req.radius_m, req.steps)]
    /\ UNCHANGED <<LAYERS, req>>

FnNext ==
    \/ CallNormalize
    \/ CallBboxFilter
    \/ CallWithinRadius
    \/ CallCirclePolygon

FnSpec == FnInit /\ [][FnNext]_vars

(***************************************************************************)
(* Specification of the server: requests arrive one at a time, in any      *)
(* order, each handled to completion.                                      *)
(***************************************************************************)
Init ==
    /\ LAYERS = <<Entry(DemoName, DemoLayer)>>
    /\ req = NoCall
    /\ resp = NoCall

ListLayers ==
    /\ req' = [op |-> "list_layers"]
    /\ resp' = list_layers(LAYERS)
    /\ UNCHANGED LAYERS

ImportCSV ==
    \E q \in ImportRequests :
        \E r \in {import_csv(LAYERS, q.file, q.layer)} :
            /\ Len(r.store) <= MaxLayers
            /\ req' = [op |-> "import_csv"] @@ q
            /\ resp' = r.resp
            /\ LAYERS' = r.store

GetLayer ==
    \E q \in LayerRequests :
        /\ req' = [op |-> "get_layer"] @@ q
        /\ resp' = get_layer(LAYERS, q.layer, q.bbox, q.limit)
        /\ UNCHANGED LAYERS

GetBuffer ==
    \E q \in BufferRequests :
        /\ req' = [op |-> "get_buffer"] @@ q
        /\ resp' \in get_buffer(LAYERS, q.layer, q.lon, q.lat, q.radius_m, q.limit)
        /\ LAYERS' = StoreAfterBuffer(LAYERS, q.layer, q.lon, q.lat, q.radius_m, q.limit)

CompareLayers ==
    \E q \in CompareRequests :
        /\ req' = [op |-> "compare_layers"] @@ q
        /\ resp' = compare_layers(LAYERS, q.layerA, q.layerB, q.distance_m)
        /\ UNCHANGED LAYERS

ExportCSV ==
    \E layer \in QueryNames :
        /\ req' = [op |-> "export_csv", layer |-> layer]
        /\ resp' = export_csv(LAYERS, layer)
        /\ UNCHANGED LAYERS

DeleteLayer ==
    \E layer \in QueryNames :
        \E r \in {delete_layer(LAYERS, layer)} :
            /\ req' = [op |-> "delete_layer", layer |-> layer]
            /\ resp' = r.resp
            /\ LAYERS' = r.store

Next ==
    \/ ListLayers
    \/ ImportCSV
    \/ GetLayer
    \/ GetBuffer
    \/ CompareLayers
    \/ ExportCSV
    \/ DeleteLayer

Spec == Init /\ [][Next]_vars

(***************************************************************************)
(* Specification of a query that runs while other requests write the       *)
(* store.  The server handles each request in a thread of its own, and a   *)
(* thread may be suspended between its look-ups in LAYERS; nothing locks   *)
(* the dict.  req is the query in flight, with the position of its handler *)
(* (pc) and the tables it has read; resp is its answer once it has one.    *)
(***************************************************************************)
\* The tables stored under the one name the requests share.
RaceTables ==
    {normalize_columns(Raw(<<s_lat, s_lon>>, <<<<t10, t10>>, <<t10, t170>>>>)).df,
     normalize_columns(Raw(<<s_lat, s_lon>>, <<<<tm90, t170>>>>)).df}

RaceQueries ==
    {[op |-> "get_layer", layer |-> s_t, bbox |-> None, limit |-> None],
     [op |-> "get_layer", layer |-> s_t, bbox |-> None, limit |-> limit_1],
     [op |-> "export_csv", layer |-> s_t],
     [op |-> "get_layer", layer |-> s_t, bbox |-> bbox_wrap, limit |-> None],
     [op |-> "get_buffer", layer |-> s_t, lon |-> t10, lat |-> t10,
      radius_m |-> NoneVal, limit |-> NoneVal],
     [op |-> "get_buffer", layer |-> s_t, lon |-> t10, lat |-> t10,
      radius_m |-> t20000km, limit |-> NoneVal],
     [op |-> "compare_layers", layerA |-> s_t, layerB |-> s_t, distance_m |-> NoneVal]}

\* The names a handler looks up in LAYERS, in the order it reads them.
Lookups(q) == IF q.op = "compare_layers" THEN <<q.layerA, q.layerB>> ELSE <<q.layer>>

\* Lines 197, 222, 241, 258
NotFound(q) ==
    IF q.op = "compare_layers" THEN err(q.op, "One or both layers not found.", 404)
    ELSE err(q.op, "Unknown layer", 404)

\* LAYERS[name] of a name that is not a key raises KeyError: get_buffer and
\* compare_layers catch it (lines 232, 251), get_layer and export_csv do not
\* and Flask answers 500.
KeyErrorAnswer(q) ==
    IF q.op \in {"get_buffer", "compare_layers"} THEN err(q.op, "Bad request", 400)
    ELSE err(q.op, "Internal Server Error", 500)

\* What a handler answers once it holds the tables it read: lines 201-211,
\* 224-231, 244-250, 259-264.
Answers(q, tables) ==
    CASE q.op = "get_layer" ->
             {QueryLayer(tables[1], q.bbox, UnpackBBox(BBoxFields(q.bbox)), q.limit)}
      [] q.op = "export_csv" -> {ok("export_csv", to_csv(tables[1]))}
      [] q.op = "get_buffer" ->
             get_buffer(<<Entry(q.layer, tables[1])>>, q.layer, q.lon, q.lat,
                        q.radius_m, q.limit)
      [] q.op = "compare_layers" ->
             {PairsAnswer(Pairs(tables[1], tables[2], DefaultDistance))}

RaceInit ==
    /\ LAYERS \in {<<Entry(DemoName, DemoLayer)>>}
                  \cup {<<Entry(DemoName, DemoLayer), Entry(s_t, df)>> : df \in RaceTables}
    /\ req = NoCall
    /\ resp = NoCall

\* A query arrives; its parameters parse.
StartQuery ==
    /\ IF req.op = "none" THEN TRUE ELSE req.pc = "done"
    /\ \E q \in RaceQueries : req' = [op |-> q.op, q |-> q, pc |-> "check", tables |-> <<>>]
    /\ resp' = NoCall
    /\ UNCHANGED LAYERS

\* Lines 197, 222, 241, 258: the test that the names are keys of LAYERS
CheckStored ==
    /\ req.op # "none" /\ req.pc = "check"
    /\ IF \E k \in 1..Len(Lookups(req.q)) : Lookups(req.q)[k] \notin Keys(LAYERS)
       THEN req' = [req EXCEPT !.pc = "done"] /\ resp' = NotFound(req.q)
       ELSE req' = [req EXCEPT !.pc = "read"] /\ resp' = resp
    /\ UNCHANGED LAYERS

\* Lines 199, 224, 243, 260: the next LAYERS[name]; with the last table read
\* the handler answers from the tables it holds.
ReadStored ==
    /\ req.op # "none" /\ req.pc = "read"
    /\ \E name \in {Lookups(req.q)[Len(req.tables) + 1]} :
           IF name \notin Keys(LAYERS)
           THEN req' = [req EXCEPT !.pc = "done"] /\ resp' = KeyErrorAnswer(req.q)
           ELSE \E tables \in {Append(req.tables, Get(LAYERS, name))} :
                    IF Len(tables) < Len(Lookups(req.q))
                    THEN req' = [req EXCEPT !.tables = tables] /\ resp' = resp
                    ELSE /\ req' = [req EXCEPT !.tables = tables, !.pc = "done"]
                         /\ resp' \in Answers(req.q, tables)
    /\ UNCHANGED LAYERS

\* Line 276 of a delete_layer of the name, running in another thread
DeleteRuns ==
    /\ s_t \in Keys(LAYERS)
    /\ LAYERS' = Del(LAYERS, s_t)
    /\ UNCHANGED <<req, resp>>

\* Line 179 of an import_csv under the name, running in another thread
ImportRuns ==
    /\ \E df \in RaceTables : LAYERS' = Put(LAYERS, s_t, df)
    /\ LAYERS' # LAYERS
    /\ UNCHANGED <<req, resp>>

RaceNext ==
    \/ StartQuery
    \/ CheckStored
    \/ ReadStored
    \/ DeleteRuns
    \/ ImportRuns

RaceSpec == RaceInit /\ [][RaceNext]_vars

(***************************************************************************)
(* Properties.  The input of a call is req and its result resp, so each    *)
(* property relates the two (and LAYERS before and after).                 *)
(***************************************************************************)
\* The labels of a raw table as the scan of the columns sees them.
Labels(raw) == [j \in 1..Len(raw.cols) |-> lower(strip(raw.cols[j]))]

\* The left-most column whose label is one of aliases, 0 when there is none.
LeftMost(raw, aliases) ==
    LET hit(j) == \E a \in 1..Len(aliases) : Labels(raw)[j] = aliases[a]
    IN  IF \E j \in 1..Len(raw.cols) : hit(j)
        THEN CHOOSE j \in 1..Len(raw.cols) : hit(j) /\ \A k \in 1..(j - 1) : ~hit(k)
        ELSE 0

HasAliasPair(raw) == LeftMost(raw, LatAliases) > 0 /\ LeftMost(raw, LonAliases) > 0

LeftLat(raw, i) == to_numeric(raw.rows[i][LeftMost(raw, LatAliases)])
LeftLon(raw, i) == to_numeric(raw.rows[i][LeftMost(raw, LonAliases)])

\* The rows whose left-most coordinates parse and are in range.
ValidRows(raw) ==
    {i \in 1..nrows(raw) :
        /\ LeftLat(raw, i).t = "num" /\ LeftLat(raw, i).n \in -90..90
        /\ LeftLon(raw, i).t = "num" /\ LeftLon(raw, i).n \in -180..180}

\* The k-th valid row
NthValid(raw, k) ==
    CHOOSE i \in ValidRows(raw) : Cardinality({j \in ValidRows(raw) : j <= i}) = k

\* The <<lat, lon>> pairs of a table with one lat and one lon column
Coordinates(df) ==
    [i \in 1..nrows(df) |-> <<Cell(df, df.rows[i], s_lat), Cell(df, df.rows[i], s_lon)>>]

\* The <<lat, lon>> pairs of the valid rows, from the left-most columns
ValidCoordinates(raw) ==
    [k \in 1..Cardinality(ValidRows(raw)) |->
        <<LeftLat(raw, NthValid(raw, k)), LeftLon(raw, NthValid(raw, k))>>]

IsImport(q) == q.op = "import_csv" /\ q.file.present /\ q.file.filename # <<>>

\* C1: when normalize_columns returns a table for an input with an alias
\* pair and no id column, the ids are 1, 2, ..., N in row order, N being the
\* number of rows whose coordinates are valid.
C1_IdsContiguous ==
    (/\ resp.op = "normalize_columns"
     /\ resp.exc = "none"
     /\ HasAliasPair(req.df)
     /\ ~In(s_id, Labels(req.df)))
    => /\ nrows(resp.df) = Cardinality(ValidRows(req.df))
       /\ Column(resp.df, s_id) = [i \in 1..Cardinality(ValidRows(req.df)) |-> Num(i)]

\* A table was returned whose first row was dropped and second row kept.
C1_Witness ==
    /\ resp.op = "normalize_columns"
    /\ resp.exc = "none"
    /\ ~In(s_id, Labels(req.df))
    /\ ValidRows(req.df) = {2}
    /\ Column(resp.df, s_id) = <<Num(1)>>

\* C2: every row of every stored table has a lat in [-90, 90] and a lon in
\* [-180, 180], and a successful import stores the valid rows of its input
\* and no other.
C2_StoredCoordinatesValid ==
    /\ \A i \in 1..Len(LAYERS) : \A k \in 1..nrows(LAYERS[i].df) :
           /\ Coordinates(LAYERS[i].df)[k][1].t = "num"
           /\ Coordinates(LAYERS[i].df)[k][1].n \in -90..90
           /\ Coordinates(LAYERS[i].df)[k][2].t = "num"
           /\ Coordinates(LAYERS[i].df)[k][2].n \in -180..180
    /\ (IsImport(req) /\ resp.status = 200)
       => Coordinates(Get(LAYERS, resp.body.layer)) = ValidCoordinates(req.file.df)

\* An import succeeded that dropped a row of its file.
C2_Witness ==
    /\ IsImport(req)
    /\ resp.status = 200
    /\ nrows(Get(LAYERS, resp.body.layer)) < nrows(req.file.df)

\* C3: an import whose input has no valid row is answered with an error and
\* leaves the store as it was; every stored layer has at least one row.
C3_EmptyImportRejected ==
    [][/\ \A i \in 1..Len(LAYERS) : nrows(LAYERS[i].df) >= 1
       /\ \A i \in 1..Len(LAYERS') : nrows(LAYERS'[i].df) >= 1
       /\ (IsImport(req') /\ HasAliasPair(req'.file.df) /\ ValidRows(req'.file.df) = {})
          => /\ resp'.status = 400
             /\ resp'.error # ""
             /\ LAYERS' = LAYERS]_vars

\* An import was refused as empty while a layer of its name is stored.
C3_Witness ==
    /\ IsImport(req)
    /\ resp.error = "No valid rows with lat/lon found after cleaning."
    /\ ImportName(req.file, req.layer) \in Keys(LAYERS)
    /\ nrows(Get(LAYERS, ImportName(req.file, req.layer))) >= 1

\* C4: an import is answered with the schema error exactly when its input
\* has no latitude alias or no longitude alias, and then stores nothing;
\* with both aliases normalize_columns succeeds.
C4_SchemaErrorIffNoAliasPair ==
    [][IsImport(req')
       => /\ (resp'.error = "CSV must include latitude/lat and longitude/lon columns.")
             <=> ~HasAliasPair(req'.file.df)
          /\ ~HasAliasPair(req'.file.df) => LAYERS' = LAYERS
          /\ HasAliasPair(req'.file.df)
             => resp'.error \in {"", "No valid rows with lat/lon found after cleaning."}]_vars

\* C5: with a latitude alias and a longitude alias present, the table is
\* returned and its lat and lon are those of the left-most alias columns.
C5_LeftMostAliasWins ==
    (resp.op = "normalize_columns" /\ HasAliasPair(req.df))
    => /\ resp.exc = "none"
       /\ Coordinates(resp.df) = ValidCoordinates(req.df)

\* C6: a successful import under name L leaves L mapped to the table just
\* normalized, and every other name with the table it had.
C6_ImportReplacesOnlyL ==
    [][(IsImport(req') /\ resp'.status = 200)
       => /\ resp'.body.layer = ImportName(req'.file, req'.layer)
          /\ Keys(LAYERS') = Keys(LAYERS) \cup {resp'.body.layer}
          /\ Len(LAYERS') = Cardinality(Keys(LAYERS'))
          /\ Get(LAYERS', resp'.body.layer) = normalize_columns(req'.file.df).df
          /\ \A k \in Keys(LAYERS) \ {resp'.body.layer} :
                 Get(LAYERS', k) = Get(LAYERS, k)]_vars

\* An import succeeded under a name that is stored before another layer,
\* so the name was there before the import.
C6_Witness ==
    /\ IsImport(req)
    /\ resp.status = 200
    /\ Len(LAYERS) = 2
    /\ LAYERS[1].name = resp.body.layer
    /\ LAYERS[1].df = normalize_columns(req.file.df).df

\* The request names a layer that the store does not hold.
NamesAbsent(q, layers) ==
    IF q.op = "compare_layers"
    THEN q.layerA \notin Keys(layers) \/ q.layerB \notin Keys(layers)
    ELSE q.layer # <<>> /\ q.layer \notin Keys(layers)

\* Every number of the body of the request parses.
NumbersParse(q) ==
    IF q.op = "get_buffer"
    THEN /\ ParseParam(q.lon).t = "num"
         /\ ParseParam(q.lat).t = "num"
         /\ ParseParam(OrDefault(q.radius_m, DefaultRadius)).t = "num"
         /\ ParseParam(OrDefault(q.limit, DefaultLimit)).t = "num"
    ELSE IF q.op = "compare_layers"
    THEN ParseParam(OrDefault(q.distance_m, DefaultDistance)).t = "num"
    ELSE TRUE

\* A delete of a stored layer removes that layer and leaves every other.
DeleteRemovesOnly(q, before, after) ==
    (q.op = "delete_layer" /\ q.layer # <<>> /\ q.layer \in Keys(before))
    => /\ Keys(after) = Keys(before) \ {q.layer}
       /\ Len(after) = Cardinality(Keys(after))
       /\ \A k \in Keys(after) : Get(after, k) = Get(before, k)

NamedOps == {"get_layer", "delete_layer", "export_csv", "get_buffer", "compare_layers"}

\* C7 as stated: get, delete, export, radius query and comparison on a name
\* that is not stored answer 404 and leave the store; a delete of a stored
\* name removes exactly that layer.
C7_AbsentNameIsNotFound ==
    [][/\ (req'.op \in NamedOps /\ NamesAbsent(req', LAYERS))
          => (resp'.status = 404 /\ LAYERS' = LAYERS)
       /\ DeleteRemovesOnly(req', LAYERS, LAYERS')]_vars

\* C7 as amended: the same, for the radius query and the comparison when the
\* numbers of the request parse.
C7_AbsentNameIsNotFoundWhenNumbersParse ==
    [][/\ (req'.op \in NamedOps /\ NamesAbsent(req', LAYERS) /\ NumbersParse(req'))
          => (resp'.status = 404 /\ LAYERS' = LAYERS)
       /\ DeleteRemovesOnly(req', LAYERS, LAYERS')]_vars

\* A radius query on a name that is not stored was answered 404.
C7_Witness ==
    /\ req.op = "get_buffer"
    /\ req.layer \notin Keys(LAYERS)
    /\ NumbersParse(req)
    /\ resp.status = 404
    /\ Len(LAYERS) >= 1

\* C8: list answers one entry per stored layer, with its row count and its
\* columns, the entries ordered by lower-cased name.
C8_ListOnePerLayerSorted ==
    req.op = "list_layers"
    => /\ Len(resp.body.layers) = Len(LAYERS)
       /\ \A i \in 1..Len(LAYERS) :
              \E k \in 1..Len(resp.body.layers) :
                  /\ resp.body.layers[k].name = LAYERS[i].name
                  /\ resp.body.layers[k].rows = Len(LAYERS[i].df.rows)
                  /\ resp.body.layers[k].columns = LAYERS[i].df.cols
                  /\ \A m \in 1..Len(resp.body.layers) :
                         resp.body.layers[m].name = LAYERS[i].name => m = k
       /\ \A k \in 1..(Len(resp.body.layers) - 1) :
              ~StrLess(lower(resp.body.layers[k + 1].name), lower(resp.body.layers[k].name))

\* The list put app.demo before B: their order as lower-cased names, and
\* the reverse of their order as written.
C8_Witness ==
    /\ req.op = "list_layers"
    /\ Len(resp.body.layers) = 2
    /\ resp.body.layers[1].name = DemoName
    /\ resp.body.layers[2].name = s_B

\* The row of a point table matches the box.
InBox(r, b) ==
    /\ b.south <= r[3].n /\ r[3].n <= b.north
    /\ IF b.east < b.west
       THEN r[4].n >= b.west \/ r[4].n <= b.east
       ELSE b.west <= r[4].n /\ r[4].n <= b.east

\* C9: bbox_filter returns the matching rows, each once; for a box with
\* east < west the rows with lon >= west come first, then those with
\* lon <= east, each group in table order; otherwise all in table order.
C9_BBoxFilter ==
    resp.op = "bbox_filter"
    => /\ \A k \in 1..nrows(resp.df) :
              resp.df.rows[k] \in Range(req.df.rows) /\ InBox(resp.df.rows[k], req.bbox)
       /\ \A i \in 1..nrows(req.df) :
              InBox(req.df.rows[i], req.bbox)
              => Cardinality({k \in 1..nrows(resp.df) : resp.df.rows[k] = req.df.rows[i]}) = 1
       /\ \A p, q \in 1..nrows(resp.df) :
              p < q =>
                  IF req.bbox.east < req.bbox.west
                  THEN /\ ~(resp.df.rows[p][4].n <= req.bbox.east
                            /\ resp.df.rows[q][4].n >= req.bbox.west)
                       /\ ((resp.df.rows[p][4].n >= req.bbox.west)
                            = (resp.df.rows[q][4].n >= req.bbox.west))
                          => resp.df.rows[p][1].n < resp.df.rows[q][1].n
                  ELSE resp.df.rows[p][1].n < resp.df.rows[q][1].n

\* A box across the antimeridian put the second row of the table first.
C9_Witness ==
    /\ resp.op = "bbox_filter"
    /\ req.bbox.east < req.bbox.west
    /\ nrows(resp.df) = 2
    /\ resp.df.rows[1][1].n = 2
    /\ resp.df.rows[2][1].n = 1

\* The distance of a row of a point table from the point of the query.
QueryDistance(q, r) == haversine_m(q.lon, q.lat, r[4].n, r[3].n)

\* C10: within_radius returns the rows at a distance <= radius_m, each once
\* and with that distance as distance_m, the distances never decreasing.
C10_WithinRadius ==
    resp.op = "within_radius"
    => /\ resp.df.cols = Append(req.df.cols, s_distance_m)
       /\ \A k \in 1..nrows(resp.df) :
              /\ SubSeq(resp.df.rows[k], 1, 4) \in Range(req.df.rows)
              /\ resp.df.rows[k][5] = Num(QueryDistance(req, resp.df.rows[k]))
              /\ resp.df.rows[k][5].n <= req.radius_m
       /\ \A i \in 1..nrows(req.df) :
              Cardinality({k \in 1..nrows(resp.df) :
                              SubSeq(resp.df.rows[k], 1, 4) = req.df.rows[i]})
              = IF QueryDistance(req, req.df.rows[i]) <= req.radius_m THEN 1 ELSE 0
       /\ \A k \in 1..(nrows(resp.df) - 1) :
              resp.df.rows[k][5].n <= resp.df.rows[k + 1][5].n

\* A row at exactly radius_m was returned and a farther row was not.
C10_Witness ==
    /\ resp.op = "within_radius"
    /\ req.radius_m > 0
    /\ \E k \in 1..nrows(resp.df) : resp.df.rows[k][5].n = req.radius_m
    /\ \E i \in 1..nrows(req.df) : QueryDistance(req, req.df.rows[i]) > req.radius_m

\* C11: in the output of within_radius, rows with equal distance_m keep the
\* order they have in the input table.
C11_TiesKeepTableOrder ==
    resp.op = "within_radius"
    => \A p, q \in 1..nrows(resp.df) :
           (p < q /\ resp.df.rows[p][5] = resp.df.rows[q][5])
           => resp.df.rows[p][1].n < resp.df.rows[q][1].n

\* The rows of a stored table that the box of a request keeps, in the order
\* of C9; every row when the request has no box.
MatchingRows(df, bbox) ==
    IF bbox = None THEN df.rows
    ELSE LET b == UnpackBBox(BBoxFields(bbox)).box
             lat(r) == Cell(df, r, s_lat).n
             lon(r) == Cell(df, r, s_lon).n
             inLat(r) == b.south <= lat(r) /\ lat(r) <= b.north
         IN  IF b.east < b.west
             THEN SelectSeq(df.rows, LAMBDA r : inLat(r) /\ lon(r) >= b.west)
                  \o SelectSeq(df.rows, LAMBDA r : inLat(r) /\ lon(r) <= b.east)
             ELSE SelectSeq(df.rows, LAMBDA r : inLat(r) /\ b.west <= lon(r) /\ lon(r) <= b.east)

IsQuery(op) == resp.op = op /\ req.op = op /\ resp.status = 200

\* C12: getLayer answers with one Feature per row for the first
\* min(limit, count) rows that pass the box, in their order, each a Point at
\* [lon, lat]; with no limit it answers with every such row.
C12_FirstRowsProjected ==
    IsQuery("get_layer")
    => LET df == Get(LAYERS, req.layer)
           rows == MatchingRows(df, req.bbox)
           fs == resp.body.features
       IN  /\ req.limit = None => Len(fs) = Len(rows)
           /\ (req.limit # None /\ isdigit(req.limit))
              => Len(fs) = IF ParseDigits(req.limit, 0) < Len(rows)
                           THEN ParseDigits(req.limit, 0) ELSE Len(rows)
           /\ Len(fs) <= Len(rows)
           /\ \A i \in 1..Len(fs) :
                  /\ fs[i].type = "Feature"
                  /\ fs[i].geometry = [type |-> "Point",
                                       coordinates |-> <<Cell(df, rows[i], s_lon).n,
                                                         Cell(df, rows[i], s_lat).n>>]
                  /\ fs[i].properties[1] = Prop(s_id, Cell(df, rows[i], s_id))

\* A limit of 1 after a box that drops the first of two rows: the one
\* feature is the second row.
C12_Witness ==
    /\ IsQuery("get_layer")
    /\ req.bbox # None /\ req.limit = limit_1
    /\ nrows(Get(LAYERS, req.layer)) = 2
    /\ Len(resp.body.features) = 1
    /\ resp.body.features[1].properties[1].value = Get(LAYERS, req.layer).rows[2][1]

\* The properties made of a row: a key per column other than lat and lon,
\* null for a missing value and the value itself otherwise.
PropertiesOf(df, r) ==
    LET props == SelectSeq(df.cols, LAMBDA c : c \notin {s_lat, s_lon})
    IN  [k \in 1..Len(props) |->
            Prop(props[k], IF Cell(df, r, props[k]).t = "nan" THEN Null
                           ELSE Cell(df, r, props[k]))]

\* C13: every feature made of a row has exactly one property per column
\* other than lat and lon; a missing value is there as null, any other
\* value as itself.
C13_PropertiesPerColumn ==
    /\ IsQuery("get_layer")
       => LET df == Get(LAYERS, req.layer)
              rows == MatchingRows(df, req.bbox)
          IN  \A i \in 1..Len(resp.body.features) :
                  resp.body.features[i].properties = PropertiesOf(df, rows[i])
    /\ IsQuery("get_buffer")
       => LET df == Get(LAYERS, req.layer)
              n == Len(df.cols) - 2
          IN  \A i \in 1..(Len(resp.body.features) - 1) :
                  /\ Len(resp.body.features[i].properties) = n + 1
                  /\ resp.body.features[i].properties[n + 1].key = s_distance_m
                  /\ \E r \in Range(df.rows) :
                         SubSeq(resp.body.features[i].properties, 1, n) = PropertiesOf(df, r)

\* A stored row without a name was projected: its name is null.
C13_Witness ==
    /\ IsQuery("get_layer")
    /\ \E i \in 1..Len(resp.body.features) :
           /\ resp.body.features[i].properties[2] = Prop(s_name, Null)
           /\ Get(LAYERS, req.layer).rows[i][2] = NaN

\* C14: circle_polygon returns a Polygon with a single ring of exactly
\* steps + 1 pairs, the last equal to the first.
C14_RingClosed ==
    (resp.op = "circle_polygon" /\ req.steps >= 3)
    => /\ resp.geometry.type = "Polygon"
       /\ Len(resp.geometry.coordinates) = 1
       /\ Len(resp.geometry.coordinates[1]) = req.steps + 1
       /\ \A k \in 1..(req.steps + 1) : Len(resp.geometry.coordinates[1][k]) = 2
       /\ resp.geometry.coordinates[1][1] = resp.geometry.coordinates[1][req.steps + 1]

\* A text that is no number.
NotNumeric(txt) == ParseNumber(txt).t # "num"

\* C15: a query on a layer with a malformed bbox, a non-numeric limit, or a
\* non-numeric radius or coordinate is answered with a bad-input error (400),
\* not with a result.
C15_BadParameterIsValidationError ==
    /\ (resp.op = "get_layer" /\ req.op = "get_layer" /\ req.layer \in Keys(LAYERS)
        /\ \/ req.bbox # None /\ (Len(req.bbox) # 4
                                  \/ \E k \in 1..Len(req.bbox) : NotNumeric(req.bbox[k]))
           \/ req.limit # None /\ NotNumeric(req.limit))
       => resp.status = 400
    /\ (resp.op = "get_buffer" /\ req.op = "get_buffer"
        /\ \E v \in {req.lon, req.lat, req.radius_m, req.limit} :
               v # NoneVal /\ ParseParam(v).t # "num")
       => resp.status = 400

ReadOps == {"list_layers", "get_layer", "get_buffer", "compare_layers", "export_csv"}

\* C16: list, getLayer, getBuffer, compareLayers and exportCSV leave the
\* store as it was; after a radius query no stored table has a distance_m
\* column; and the same query asked again of the same store is answered the
\* same.
C16_ReadsLeaveStore ==
    [][/\ req'.op \in ReadOps => LAYERS' = LAYERS
       /\ req'.op = "get_buffer"
          => \A i \in 1..Len(LAYERS') : ~In(s_distance_m, LAYERS'[i].df.cols)
       /\ (req' = req /\ req.op \in ReadOps /\ resp.op = req.op /\ LAYERS' = LAYERS)
          => resp' = resp]_vars

\* A radius query answered with a row and its distance_m, the stored table
\* having no such column.
C16_Witness ==
    /\ IsQuery("get_buffer")
    /\ Len(resp.body.features) >= 2
    /\ \E k \in 1..Len(resp.body.features[1].properties) :
           resp.body.features[1].properties[k].key = s_distance_m
    /\ ~In(s_distance_m, Get(LAYERS, req.layer).cols)

\* What a query answers from the one table df stored under its name.
AnswersFrom(q, df) == Answers(q, [k \in 1..Len(Lookups(q)) |-> df])

\* C17: a query that runs while the table under its name is deleted or
\* replaced answers not-found, or answers from one complete table that was
\* stored under the name.
C17_QuerySeesOneTable ==
    (req.op # "none" /\ req.pc = "done")
    => \/ resp = NotFound(req.q)
       \/ \E df \in RaceTables : resp \in AnswersFrom(req.q, df)

=============================================================================
